---- MODULE Spec2Model ----
(***************************************************************************)
(* A model of extvlantblsim.py, the G.988 extended VLAN tagging operation  *)
(* table simulator: rule validation (VlanTagOp.__post_init__), the filter  *)
(* and treatment of one rule (matches_filter, transform), the table        *)
(* (VlanTagOpTable.__init__, from_stream, process_frame).                  *)
(*                                                                         *)
(* Four specifications share the module's variables:                       *)
(*   SpecOp      constructs one VlanTagOp from 15 integers;                *)
(*   SpecRule    applies matches_filter and transform of one rule to one   *)
(*               frame;                                                    *)
(*   SpecTable   builds a table from a list of rules and processes frames; *)
(*   SpecStream  builds a table from a stream of text rows.                *)
(***************************************************************************)
EXTENDS Integers, Sequences, FiniteSets, TLC

VARIABLES
    pc,         \* which operation has run last
    vals,       \* SpecOp: the 15 positional arguments of VlanTagOp(...)
    made,       \* SpecOp: the outcome of the construction
    op,         \* SpecRule: the rule
    frame,      \* SpecRule: the frame
    matched,    \* SpecRule: what matches_filter returned
    out,        \* SpecRule: what transform returned
    ops,        \* SpecTable: the list given to VlanTagOpTable(ops)
    table,      \* SpecTable: self._ops
    tframe,     \* SpecTable: the frame given to process_frame
    tres,       \* SpecTable: what process_frame returned
    stream,     \* SpecStream: the lines of the input, each a list of tokens
    built       \* SpecStream: the outcome of from_stream

vars == <<pc, vals, made, op, frame, matched, out, ops, table, tframe, tres, stream, built>>

\* What a variable holds in the specifications that do not use it.
Idle == "idle"

----------------------------------------------------------------------------
(* VlanTagOp: the fields and their validation                              *)

NFields == 15
NFilter == 8

\* fields(self), in declaration order
FieldNames ==
    << "f_out_prio", "f_out_vid", "f_out_tpid", "f_in_prio", "f_in_vid", "f_in_tpid",
       "f_ext_crit", "f_eth_type",
       "tag_rem", "t_out_prio", "t_out_vid", "t_out_tpid", "t_in_prio", "t_in_vid",
       "t_in_tpid" >>

\* name.split("_") of each field name
NameParts ==
    << <<"f", "out", "prio">>, <<"f", "out", "vid">>, <<"f", "out", "tpid">>,
       <<"f", "in", "prio">>, <<"f", "in", "vid">>, <<"f", "in", "tpid">>,
       <<"f", "ext", "crit">>, <<"f", "eth", "type">>,
       <<"tag", "rem">>,
       <<"t", "out", "prio">>, <<"t", "out", "vid">>, <<"t", "out", "tpid">>,
       <<"t", "in", "prio">>, <<"t", "in", "vid">>, <<"t", "in", "tpid">> >>

\* VlanTagOp(*vals): the positional arguments become the fields in declaration order
MkOp(v) ==
    [ f_out_prio |-> v[1], f_out_vid |-> v[2], f_out_tpid |-> v[3],
      f_in_prio |-> v[4], f_in_vid |-> v[5], f_in_tpid |-> v[6],
      f_ext_crit |-> v[7], f_eth_type |-> v[8],
      tag_rem |-> v[9],
      t_out_prio |-> v[10], t_out_vid |-> v[11], t_out_tpid |-> v[12],
      t_in_prio |-> v[13], t_in_vid |-> v[14], t_in_tpid |-> v[15] ]

\* dataclasses.astuple(op)
astuple(o) ==
    << o.f_out_prio, o.f_out_vid, o.f_out_tpid, o.f_in_prio, o.f_in_vid, o.f_in_tpid,
       o.f_ext_crit, o.f_eth_type,
       o.tag_rem, o.t_out_prio, o.t_out_vid, o.t_out_tpid, o.t_in_prio, o.t_in_vid,
       o.t_in_tpid >>

\* FieldOk with the treatment VID check admitting 4096 alone among the copy codes.
FieldOkNarrow(parts, val) ==
    IF Len(parts) = 3 /\ parts[1] = "f" /\ parts[3] = "prio"
    THEN val \in (0..8) \cup {14, 15}
    ELSE IF Len(parts) = 3 /\ parts[1] = "t" /\ parts[3] = "prio"
    THEN val \in (0..10) \cup {15}
    ELSE IF Len(parts) = 3 /\ parts[1] = "f" /\ parts[3] = "vid"
    THEN (0 <= val /\ val <= 4094) \/ val = 4096
    ELSE IF Len(parts) = 3 /\ parts[1] = "t" /\ parts[3] = "vid"
    THEN (0 <= val /\ val <= 4094) \/ val = 4096
    ELSE IF Len(parts) = 3 /\ parts[1] = "f" /\ parts[3] = "tpid"
    THEN val \in {0, 4, 5, 6, 7}
    ELSE IF Len(parts) = 3 /\ parts[1] = "t" /\ parts[3] = "tpid"
    THEN 0 <= val /\ val <= 7
    ELSE IF parts = <<"f", "ext", "crit">>
    THEN 0 <= val /\ val <= 2
    ELSE IF parts = <<"f", "eth", "type">>
    THEN 0 <= val /\ val <= 5
    ELSE IF parts = <<"tag", "rem">>
    THEN 0 <= val /\ val <= 3
    ELSE TRUE

\* One iteration of the loop of __post_init__: the match on name.split("_"), first
\* pattern that fits; TRUE when the iteration raises nothing.
FieldOk(parts, val) ==
    IF Len(parts) = 3 /\ parts[1] = "f" /\ parts[3] = "prio"
    THEN val \in (0..8) \cup {14, 15}
    ELSE IF Len(parts) = 3 /\ parts[1] = "t" /\ parts[3] = "prio"
    THEN val \in (0..10) \cup {15}
    ELSE IF Len(parts) = 3 /\ parts[1] = "f" /\ parts[3] = "vid"
    THEN (0 <= val /\ val <= 4094) \/ val = 4096
    ELSE IF Len(parts) = 3 /\ parts[1] = "t" /\ parts[3] = "vid"
    THEN (0 <= val /\ val <= 4094) \/ val \in {4096, 4097}
    ELSE IF Len(parts) = 3 /\ parts[1] = "f" /\ parts[3] = "tpid"
    THEN val \in {0, 4, 5, 6, 7}
    ELSE IF Len(parts) = 3 /\ parts[1] = "t" /\ parts[3] = "tpid"
    THEN 0 <= val /\ val <= 7
    ELSE IF parts = <<"f", "ext", "crit">>
    THEN 0 <= val /\ val <= 2
    ELSE IF parts = <<"f", "eth", "type">>
    THEN 0 <= val /\ val <= 5
    ELSE IF parts = <<"tag", "rem">>
    THEN 0 <= val /\ val <= 3
    ELSE TRUE

\* The outcomes of a construction.
Constructed(o) == [ok |-> TRUE, op |-> o, exc |-> "", field |-> "", val |-> 0]
ValueError(name, val) ==
    [ok |-> FALSE, op |-> <<>>, exc |-> "ValueError", field |-> name, val |-> val]

\* VlanTagOp.__post_init__: the fields are checked in declaration order and the first
\* one outside its domain raises a ValueError that carries its name and value.
PostInit(o) ==
    LET t == astuple(o)
        bad == {k \in 1..NFields : ~FieldOk(NameParts[k], t[k])}
    IN  IF bad = {}
        THEN Constructed(o)
        ELSE LET k == CHOOSE i \in bad : \A j \in bad : i <= j
             IN  ValueError(FieldNames[k], t[k])

\* VlanTagOp(*v): the generated __init__ sets the fields, then runs __post_init__.
NewVlanTagOp(v) == PostInit(MkOp(v))

----------------------------------------------------------------------------
(* VlanTag and EthFrame                                                    *)

TPID_8100 == 33024      \* 0x8100, the default of VlanTag.tpid and of the TPID contexts

VlanTag(vid, pcp, tpid, dei) == [vid |-> vid, pcp |-> pcp, tpid |-> tpid, dei |-> dei]

\* VlanTag.__post_init__: TRUE when it raises nothing
VlanTagOk(tag) ==
    /\ 0 <= tag.vid /\ tag.vid <= 4094
    /\ 0 <= tag.pcp /\ tag.pcp <= 7

\* What process_frame and transform return: an EthFrame, None, or a raised ValueError.
EthFrame(tags) == [isNone |-> FALSE, exc |-> "", tags |-> tags]
None == [isNone |-> TRUE, exc |-> "", tags |-> <<>>]
Raised == [isNone |-> FALSE, exc |-> "ValueError", tags |-> <<>>]

is_raw(f) == Len(f.tags) = 0
is_single_tagged(f) == Len(f.tags) = 1
is_double_tagged(f) == Len(f.tags) >= 2

has_inner(f) == Len(f.tags) > 0
has_outer(f) == Len(f.tags) >= 2
\* self.tags[-1]; read only where has_inner
inner_tag(f) == f.tags[Len(f.tags)]
\* self.tags[-2]; read only where has_outer
outer_tag(f) == f.tags[Len(f.tags) - 1]

----------------------------------------------------------------------------
(* VlanTagOp: the classification predicates                                *)

is_untagged_filter(o) == o.f_out_prio = 15 /\ o.f_in_prio = 15
is_single_tagged_filter(o) == o.f_out_prio = 15 /\ o.f_in_prio # 15
is_double_tagged_filter(o) == o.f_out_prio # 15

is_untagged_default(o) ==
    /\ o.f_out_prio = 15 /\ o.f_out_vid = 4096
    /\ o.f_in_prio = 15 /\ o.f_in_vid = 4096
    /\ o.f_ext_crit = 0

is_single_tagged_default(o) ==
    /\ o.f_out_prio = 15 /\ o.f_out_vid = 4096
    /\ o.f_in_prio = 14 /\ o.f_in_vid = 4096
    /\ o.f_ext_crit = 0

is_double_tagged_default(o) ==
    /\ o.f_out_prio = 14 /\ o.f_out_vid = 4096
    /\ o.f_in_prio = 14 /\ o.f_in_vid = 4096
    /\ o.f_ext_crit = 0

is_default(o) ==
    is_untagged_default(o) \/ is_single_tagged_default(o) \/ is_double_tagged_default(o)

is_transparent_treatment(o) ==
    IF o.tag_rem # 0 THEN FALSE
    ELSE IF is_untagged_filter(o)
    THEN o.t_out_prio = 15 /\ o.t_in_prio = 15
    ELSE IF is_single_tagged_filter(o)
    THEN o.t_out_prio = 15 /\ o.t_in_prio = 8 /\ o.t_in_vid = 4096 /\ o.t_in_tpid = 0
    ELSE IF is_double_tagged_filter(o)
    THEN /\ o.t_out_prio = 9 /\ o.t_out_vid = 4097 /\ o.t_out_tpid = 1
         /\ o.t_in_prio = 8 /\ o.t_in_vid = 4096 /\ o.t_in_tpid = 0
    ELSE FALSE

is_drop_treatment(o) == o.tag_rem = 3

----------------------------------------------------------------------------
(* VlanTagOp.matches_filter                                                *)

check_tpid(tpid_dei, tag, input_tpid) ==
    CASE tpid_dei = 0 -> TRUE
      [] tpid_dei = 4 -> tag.tpid = TPID_8100
      [] tpid_dei = 5 -> tag.tpid = input_tpid
      [] tpid_dei = 6 -> tag.tpid = input_tpid /\ tag.dei = 0
      [] tpid_dei = 7 -> tag.tpid = input_tpid /\ tag.dei = 1
      [] OTHER -> FALSE

\* The outer and the inner tag checks, each run only for the frames that have the tag.
outer_match(o, f, input_tpid) ==
    LET tag == outer_tag(f)
    IN  /\ check_tpid(o.f_out_tpid, tag, input_tpid)
        /\ ~(o.f_out_prio < 8 /\ o.f_out_prio # tag.pcp)
        /\ o.f_out_vid \in {4096, tag.vid}

inner_match(o, f, input_tpid) ==
    LET tag == inner_tag(f)
    IN  /\ check_tpid(o.f_in_tpid, tag, input_tpid)
        /\ ~(o.f_in_prio < 8 /\ o.f_in_prio # tag.pcp)
        /\ o.f_in_vid \in {4096, tag.vid}

\* matches_filter without its three tag-count rejections.
matches_filter_noclass(o, f, input_tpid) ==
    /\ (is_double_tagged(f) => outer_match(o, f, input_tpid))
    /\ (~is_raw(f) => inner_match(o, f, input_tpid))

\* matches_filter that also holds the extended criteria against the frame: a tagged
\* frame carries no IPoE/PPPoE marker, so a rule with f_ext_crit set rejects it.
matches_filter_extcrit(o, f, input_tpid) ==
    /\ ~(is_raw(f) /\ ~is_untagged_filter(o))
    /\ ~(is_single_tagged(f) /\ ~is_single_tagged_filter(o))
    /\ ~(is_double_tagged(f) /\ ~is_double_tagged_filter(o))
    /\ o.f_ext_crit = 0
    /\ (is_double_tagged(f) => outer_match(o, f, input_tpid))
    /\ (~is_raw(f) => inner_match(o, f, input_tpid))

matches_filter(o, f, input_tpid) ==
    /\ ~(is_raw(f) /\ ~is_untagged_filter(o))
    /\ ~(is_single_tagged(f) /\ ~is_single_tagged_filter(o))
    /\ ~(is_double_tagged(f) /\ ~is_double_tagged_filter(o))
    /\ (is_double_tagged(f) => outer_match(o, f, input_tpid))
    /\ (~is_raw(f) => inner_match(o, f, input_tpid))

----------------------------------------------------------------------------
(* VlanTagOp.transform                                                     *)

resolve_pcp(prio, f) ==
    CASE 0 <= prio /\ prio <= 7 -> prio
      [] prio = 8 -> IF has_inner(f) THEN inner_tag(f).pcp ELSE 0
      [] prio = 9 -> IF has_outer(f) THEN outer_tag(f).pcp ELSE 0
      [] prio = 10 -> 0
      [] OTHER -> 0

resolve_vid(vid, f) ==
    CASE 0 <= vid /\ vid <= 4094 -> vid
      [] vid = 4096 -> IF has_inner(f) THEN inner_tag(f).vid ELSE 0
      [] vid = 4097 -> IF has_outer(f) THEN outer_tag(f).vid ELSE 0
      [] OTHER -> 0

\* resolve_tpid_dei with code 0 taking the TPID of the output context and only the
\* DEI from the inner tag, as code 2 does.
resolve_tpid_dei_ctx(tpid_dei, f, output_tpid) ==
    CASE tpid_dei = 0 -> <<output_tpid, IF has_inner(f) THEN inner_tag(f).dei ELSE 0>>
      [] tpid_dei = 1 ->
            IF has_outer(f) THEN <<outer_tag(f).tpid, outer_tag(f).dei>> ELSE <<TPID_8100, 0>>
      [] tpid_dei = 2 -> <<output_tpid, IF has_inner(f) THEN inner_tag(f).dei ELSE 0>>
      [] tpid_dei = 3 -> <<output_tpid, IF has_outer(f) THEN outer_tag(f).dei ELSE 0>>
      [] tpid_dei = 4 -> <<TPID_8100, 0>>
      [] tpid_dei = 6 -> <<output_tpid, 0>>
      [] tpid_dei = 7 -> <<output_tpid, 1>>
      [] OTHER -> <<output_tpid, 0>>

\* the pair (tpid, dei)
resolve_tpid_dei(tpid_dei, f, output_tpid) ==
    CASE tpid_dei = 0 ->
            IF has_inner(f) THEN <<inner_tag(f).tpid, inner_tag(f).dei>> ELSE <<TPID_8100, 0>>
      [] tpid_dei = 1 ->
            IF has_outer(f) THEN <<outer_tag(f).tpid, outer_tag(f).dei>> ELSE <<TPID_8100, 0>>
      [] tpid_dei = 2 -> <<output_tpid, IF has_inner(f) THEN inner_tag(f).dei ELSE 0>>
      [] tpid_dei = 3 -> <<output_tpid, IF has_outer(f) THEN outer_tag(f).dei ELSE 0>>
      [] tpid_dei = 4 -> <<TPID_8100, 0>>
      [] tpid_dei = 6 -> <<output_tpid, 0>>
      [] tpid_dei = 7 -> <<output_tpid, 1>>
      [] OTHER -> <<output_tpid, 0>>

\* VlanTag(resolve_vid(vid), resolve_pcp(prio), *resolve_tpid_dei(tpid))
synth_tag(prio, vid, tpid_dei, f, output_tpid) ==
    LET td == resolve_tpid_dei(tpid_dei, f, output_tpid)
    IN  VlanTag(resolve_vid(vid, f), resolve_pcp(prio, f), td[1], td[2])

\* the list named tags in transform, once both treatments have run
synth_tags(o, f, output_tpid) ==
    (IF o.t_out_prio # 15
     THEN <<synth_tag(o.t_out_prio, o.t_out_vid, o.t_out_tpid, f, output_tpid)>>
     ELSE <<>>)
    \o
    (IF o.t_in_prio # 15
     THEN <<synth_tag(o.t_in_prio, o.t_in_vid, o.t_in_tpid, f, output_tpid)>>
     ELSE <<>>)

\* frame.tags[n:]
DropFirst(tags, n) == SubSeq(tags, n + 1, Len(tags))

\* transform that strips tag_rem tags in front of the synthesized ones too.
transform_strip(o, f, output_tpid) ==
    IF is_drop_treatment(o) THEN None
    ELSE LET tags == synth_tags(o, f, output_tpid)
         IN  IF \E i \in 1..Len(tags) : ~VlanTagOk(tags[i])
             THEN Raised
             ELSE EthFrame(tags \o DropFirst(f.tags, o.tag_rem))

transform(o, f, output_tpid) ==
    IF is_drop_treatment(o) THEN None
    ELSE LET tags == synth_tags(o, f, output_tpid)
         IN  IF \E i \in 1..Len(tags) : ~VlanTagOk(tags[i])
             THEN Raised
             ELSE EthFrame(IF tags # <<>> THEN tags ELSE DropFirst(f.tags, o.tag_rem))

----------------------------------------------------------------------------
(* SpecRule: one rule applied to one frame                                 *)

MaxTags == 3        \* the longest tag stack of a frame

\* Three tags: they differ in VID, in PCP, in TPID (0x8100, 0x88a8) and in DEI.
TagSet ==
    { VlanTag(10, 3, TPID_8100, 0), VlanTag(20, 5, 34984, 1), VlanTag(10, 5, TPID_8100, 1) }

FrameSet == UNION { { EthFrame(t) : t \in [1..n -> TagSet] } : n \in 0..MaxTags }

\* Filter halves: every class, exact and wildcard priorities and VIDs, every TPID code.
OuterFilters == { <<p, v, t>> : p \in {3, 14, 15}, v \in {10, 4096}, t \in {0, 7} }
InnerFilters ==
    { <<p, v, t>> : p \in {3, 8, 14, 15}, v \in {10, 4096}, t \in {0, 6} }
    \cup { <<8, 4096, t>> : t \in {4, 5, 7} }
FilterSweep == { fo \o fi \o <<0, 0>> : fo \in OuterFilters, fi \in InnerFilters }
FilterClasses ==
    { <<15, 4096, 0, 15, 4096, 0, 0, 0>>,
      <<15, 4096, 0, 14, 4096, 0, 0, 0>>,
      <<14, 4096, 0, 14, 4096, 0, 0, 0>> }

\* Treatment halves: pass-through, the transparent treatment of the single- and of
\* the double-tagged class, drop.
TreatFew ==
    { <<0, 15, 0, 0, 15, 0, 0>>,
      <<0, 15, 4096, 0, 8, 4096, 0>>,
      <<0, 9, 4097, 1, 8, 4096, 0>>,
      <<3, 15, 0, 0, 15, 0, 0>> }
\* One tag's treatment (priority, VID, TPID/DEI): no tag, every priority and VID code
\* with TPID code 0, every TPID code with the copy-inner priority and VID.
TagTreats ==
    { <<15, 0, 0>> }
    \cup { <<p, v, 0>> : p \in {5, 8, 9, 10}, v \in {30, 4096, 4097} }
    \cup { <<8, 4096, t>> : t \in 1..7 }
TagTreatsFew == { <<15, 0, 0>>, <<8, 4096, 0>>, <<9, 4097, 1>> }
TreatSweep ==
    { <<r>> \o to \o ti : r \in 0..3, to \in TagTreats, ti \in TagTreatsFew }
    \cup { <<r>> \o to \o ti : r \in 0..3, to \in TagTreatsFew, ti \in TagTreats }

RuleSet ==
    { MkOp(f \o t) : f \in FilterSweep, t \in TreatFew }
    \cup { MkOp(f \o t) : f \in FilterClasses, t \in TreatSweep }

InitRule ==
    /\ pc = "rule"
    /\ op \in RuleSet
    /\ frame \in FrameSet
    /\ matched = FALSE
    /\ out = None
    /\ vals = Idle /\ made = Idle
    /\ ops = Idle /\ table = Idle /\ tframe = Idle /\ tres = Idle
    /\ stream = Idle /\ built = Idle

\* op.matches_filter(frame)
Match ==
    /\ pc = "rule"
    /\ pc' = "matched"
    /\ matched' = matches_filter(op, frame, TPID_8100)
    /\ UNCHANGED <<vals, made, op, frame, out, ops, table, tframe, tres, stream, built>>

\* op.transform(frame)
Transform ==
    /\ pc = "rule"
    /\ pc' = "transformed"
    /\ out' = transform(op, frame, TPID_8100)
    /\ UNCHANGED <<vals, made, op, frame, matched, ops, table, tframe, tres, stream, built>>

NextRule == Match \/ Transform

SpecRule == InitRule /\ [][NextRule]_vars

----------------------------------------------------------------------------
(* Claims on one rule and one frame, under SpecRule                        *)

\* C7: matches_filter returns true only when the frame's tag-count class is the rule's
\* filter class: no tag and both filter priorities 15; exactly one tag and
\* f_out_prio = 15, f_in_prio # 15; two or more tags and f_out_prio # 15.
C7_MatchOnlyOwnClass ==
    (pc = "matched" /\ matched) =>
        /\ (Len(frame.tags) = 0 => (op.f_out_prio = 15 /\ op.f_in_prio = 15))
        /\ (Len(frame.tags) = 1 => (op.f_out_prio = 15 /\ op.f_in_prio # 15))
        /\ (Len(frame.tags) >= 2 => op.f_out_prio # 15)

\* A frame of each class is accepted by a rule of its class.
C7_Witness ==
    /\ pc = "matched" /\ matched
    /\ Len(frame.tags) = 3
    /\ op.f_out_prio = 3 /\ op.f_in_prio = 8

\* The first tags of a stack removed, written without SubSeq.
C8_Rest(tags, n) ==
    IF Len(tags) <= n THEN <<>> ELSE [i \in 1..(Len(tags) - n) |-> tags[i + n]]

\* C8: transform yields None when tag_rem = 3; otherwise, with both treatment
\* priorities 15, the input stack without its first tag_rem tags; otherwise the
\* synthesized tags alone, outer (iff t_out_prio # 15) then inner (iff
\* t_in_prio # 15), the same for every tag_rem in {0, 1, 2}.
C8_TransformShape ==
    pc = "transformed" =>
        IF op.tag_rem = 3 THEN out = None
        ELSE IF op.t_out_prio = 15 /\ op.t_in_prio = 15
        THEN out = EthFrame(C8_Rest(frame.tags, op.tag_rem))
        ELSE LET o == synth_tag(op.t_out_prio, op.t_out_vid, op.t_out_tpid, frame, TPID_8100)
                 i == synth_tag(op.t_in_prio, op.t_in_vid, op.t_in_tpid, frame, TPID_8100)
             IN  /\ out = EthFrame(CASE op.t_out_prio # 15 /\ op.t_in_prio # 15 -> <<o, i>>
                                     [] op.t_out_prio # 15 /\ op.t_in_prio = 15 -> <<o>>
                                     [] OTHER -> <<i>>)
                 /\ \A r \in 0..2 : transform([op EXCEPT !.tag_rem = r], frame, TPID_8100) = out

\* A rule that synthesizes one tag and asks for two removals, on a frame of three tags.
C8_Witness ==
    /\ pc = "transformed"
    /\ op.tag_rem = 2 /\ op.t_out_prio = 15 /\ op.t_in_prio = 8
    /\ Len(frame.tags) = 3
    /\ Len(out.tags) = 1

\* C9 as stated: a transparent rule returns every frame it accepts unchanged, whatever
\* the number of tags.
C9_TransparentAnyFrame ==
    (pc = "transformed" /\ is_transparent_treatment(op) /\ matches_filter(op, frame, TPID_8100)) =>
        out = frame

\* C9, amended: a transparent rule returns every frame of at most two tags that it
\* accepts unchanged: same number of tags and, tag by tag, the same vid, pcp, tpid, dei.
C9_TransparentUpToTwoTags ==
    (/\ pc = "transformed"
     /\ is_transparent_treatment(op)
     /\ matches_filter(op, frame, TPID_8100)
     /\ Len(frame.tags) <= 2) =>
        /\ ~out.isNone /\ out.exc = ""
        /\ Len(out.tags) = Len(frame.tags)
        /\ \A i \in 1..Len(frame.tags) :
              /\ out.tags[i].vid = frame.tags[i].vid
              /\ out.tags[i].pcp = frame.tags[i].pcp
              /\ out.tags[i].tpid = frame.tags[i].tpid
              /\ out.tags[i].dei = frame.tags[i].dei

\* A double-tagged frame of two different tags, one of them not 0x8100, through the
\* transparent treatment of the double-tagged class.
C9_Witness ==
    /\ pc = "transformed"
    /\ is_transparent_treatment(op) /\ is_double_tagged_filter(op)
    /\ matches_filter(op, frame, TPID_8100)
    /\ Len(frame.tags) = 2 /\ frame.tags[1] # frame.tags[2]
    /\ frame.tags[1].tpid # TPID_8100
    /\ out = frame

----------------------------------------------------------------------------
(* SpecOp: the construction of one VlanTagOp                               *)

MaxEdits == 2       \* how many arguments differ from those of BaseRow

\* The rule of a transparent single-tag pass-through of VID 100: every field valid.
BaseRow == <<15, 4096, 0, 8, 100, 0, 0, 0, 0, 15, 4096, 0, 8, 4096, 0>>

\* The values tried for each argument: the ends of every range of its domain and
\* their neighbours outside it.
PrioF == {-1, 0, 8, 9, 13, 14, 15, 16}
PrioT == {-1, 0, 10, 11, 14, 15, 16}
VidF == {-1, 0, 4094, 4095, 4096, 4097}
VidT == {-1, 0, 4094, 4095, 4096, 4097, 4098, 8191}
TpidF == {-1, 0, 1, 3, 4, 7, 8}
TpidT == {-1, 0, 7, 8}
ArgValues ==
    << PrioF, VidF, TpidF, PrioF, VidF, TpidF, {-1, 0, 2, 3}, {-1, 0, 5, 6},
       {-1, 0, 3, 4}, PrioT, VidT, TpidT, PrioT, VidT, TpidT >>

\* one argument and a value for it
ArgEdits == UNION { { <<k, x>> : x \in ArgValues[k] } : k \in 1..NFields }

RECURSIVE Edited(_)
Edited(n) ==
    IF n = 0 THEN {BaseRow}
    ELSE { [v EXCEPT ![e[1]] = e[2]] : v \in Edited(n - 1), e \in ArgEdits }

ArgSet == Edited(MaxEdits)

InitOp ==
    /\ pc = "args"
    /\ vals \in ArgSet
    /\ made = Idle
    /\ op = Idle /\ frame = Idle /\ matched = Idle /\ out = Idle
    /\ ops = Idle /\ table = Idle /\ tframe = Idle /\ tres = Idle
    /\ stream = Idle /\ built = Idle

\* VlanTagOp(*vals)
Construct ==
    /\ pc = "args"
    /\ pc' = "constructed"
    /\ made' = NewVlanTagOp(vals)
    /\ UNCHANGED <<vals, op, frame, matched, out, ops, table, tframe, tres, stream, built>>

NextOp == Construct

SpecOp == InitOp /\ [][NextOp]_vars

\* The domain of each field, in field order, as the validation table states it.
C3_Domains ==
    LET fprio == (0..8) \cup {14, 15}
        tprio == (0..10) \cup {15}
        fvid == (0..4094) \cup {4096}
        tvid == (0..4094) \cup {4096, 4097}
        ftpid == {0, 4, 5, 6, 7}
        ttpid == 0..7
    IN  << fprio, fvid, ftpid, fprio, fvid, ftpid, {0, 1, 2}, 0..5,
           0..3, tprio, tvid, ttpid, tprio, tvid, ttpid >>

C3_Outside == {k \in 1..NFields : vals[k] \notin C3_Domains[k]}

\* C3: the construction succeeds iff every argument is in the domain of its field, the
\* rule made carries the arguments, and with exactly one argument outside its domain
\* the error names that field.
C3_ConstructIffInDomain ==
    pc = "constructed" =>
        /\ (made.ok <=> C3_Outside = {})
        /\ (made.ok => astuple(made.op) = vals)
        /\ \A k \in 1..NFields :
              C3_Outside = {k} =>
                  (made.exc = "ValueError" /\ made.field = FieldNames[k] /\ made.val = vals[k])

\* The copy-outer code 4097 is accepted as a treatment VID, and next to it an inner
\* filter VID of 4097 is refused by name.
C3_Witness ==
    /\ pc = "constructed"
    /\ vals[11] = 4097 /\ vals[5] = 4097
    /\ C3_Outside = {5}
    /\ made.field = "f_in_vid"

----------------------------------------------------------------------------
(* VlanTagOpTable: the constructor and process_frame                       *)

\* Python's order on two tuples of integers: the first place where they differ
\* decides, and a proper prefix is smaller.
RECURSIVE TupleLess(_, _)
TupleLess(a, b) ==
    IF a = <<>> THEN b # <<>>
    ELSE IF b = <<>> THEN FALSE
    ELSE IF Head(a) # Head(b) THEN Head(a) < Head(b)
    ELSE TupleLess(Tail(a), Tail(b))

\* the sort key with the default flag left out
SortKeyNoFlag(o) == <<0, SubSeq(astuple(o), 1, NFilter)>>

\* key=lambda op: (1 if op.is_default else 0, astuple(op)[:8])
SortKey(o) == <<IF is_default(o) THEN 1 ELSE 0, SubSeq(astuple(o), 1, NFilter)>>

\* the order on two keys: the flags, then the filter tuples
KeyLess(k1, k2) == k1[1] < k2[1] \/ (k1[1] = k2[1] /\ TupleLess(k1[2], k2[2]))

\* x put into a sorted list behind every element whose key is not greater: with
\* Sorted below, the stable sort that sorted() is.
RECURSIVE Insert(_, _)
Insert(sorted, x) ==
    IF sorted = <<>> THEN <<x>>
    ELSE IF KeyLess(SortKey(x), SortKey(Head(sorted)))
    THEN <<x>> \o sorted
    ELSE <<Head(sorted)>> \o Insert(Tail(sorted), x)

RECURSIVE Sorted(_)
Sorted(list) ==
    IF list = <<>> THEN <<>>
    ELSE Insert(Sorted(SubSeq(list, 1, Len(list) - 1)), list[Len(list)])

\* VlanTagOpTable.__init__: self._ops
NewVlanTagOpTable(list) == Sorted(list)

\* the loop of process_frame from the i-th rule on
RECURSIVE process_from(_, _, _)
process_from(t, i, f) ==
    IF i > Len(t) THEN None
    ELSE IF matches_filter(t[i], f, TPID_8100) THEN transform(t[i], f, TPID_8100)
    ELSE process_from(t, i + 1, f)

\* process_frame that goes on to the next rule when a treatment returns None
RECURSIVE process_from_skip(_, _, _)
process_from_skip(t, i, f) ==
    IF i > Len(t) THEN None
    ELSE IF matches_filter(t[i], f, TPID_8100) /\ transform(t[i], f, TPID_8100) # None
    THEN transform(t[i], f, TPID_8100)
    ELSE process_from_skip(t, i + 1, f)

process_frame_skip(t, f) == process_from_skip(t, 1, f)

process_frame(t, f) == process_from(t, 1, f)

----------------------------------------------------------------------------
(* SpecTable: a table built from a list of rules, then frames processed     *)

MaxOps == 3         \* the longest list of rules given to the constructor

\* Filter halves: the three defaults, a default with f_eth_type set, and rules that
\* differ from a default in f_ext_crit alone or filter on a VID or a priority.
F_UntaggedDefault == <<15, 4096, 0, 15, 4096, 0, 0, 0>>
F_UntaggedEth     == <<15, 4096, 0, 15, 4096, 0, 0, 1>>
F_UntaggedExt     == <<15, 4096, 0, 15, 4096, 0, 1, 0>>
F_SingleDefault   == <<15, 4096, 0, 14, 4096, 0, 0, 0>>
F_SingleVid10     == <<15, 4096, 0, 8, 10, 0, 0, 0>>
F_SinglePrio5     == <<15, 4096, 0, 5, 4096, 0, 0, 0>>
F_DoubleDefault   == <<14, 4096, 0, 14, 4096, 0, 0, 0>>
F_DoubleExt       == <<14, 4096, 0, 14, 4096, 0, 2, 0>>

TableRules ==
    { MkOp(F_UntaggedDefault \o <<0, 15, 0, 0, 15, 0, 0>>),
      MkOp(F_UntaggedEth \o <<3, 15, 0, 0, 15, 0, 0>>),
      MkOp(F_UntaggedExt \o <<0, 15, 0, 0, 5, 30, 4>>),
      MkOp(F_SingleDefault \o <<0, 15, 4096, 0, 8, 4096, 0>>),
      MkOp(F_SingleVid10 \o <<0, 15, 0, 0, 8, 30, 0>>),
      MkOp(F_SingleVid10 \o <<3, 15, 0, 0, 15, 0, 0>>),
      MkOp(F_SinglePrio5 \o <<1, 15, 0, 0, 15, 0, 0>>),
      MkOp(F_DoubleDefault \o <<0, 9, 4097, 1, 8, 4096, 0>>),
      MkOp(F_DoubleExt \o <<1, 15, 0, 0, 15, 0, 0>>) }

TableFrames ==
    LET a == VlanTag(10, 3, TPID_8100, 0)
        b == VlanTag(20, 5, 34984, 1)
        c == VlanTag(10, 5, TPID_8100, 1)
    IN  { EthFrame(<<>>), EthFrame(<<a>>), EthFrame(<<b>>), EthFrame(<<c>>),
          EthFrame(<<a, b>>), EthFrame(<<b, c>>), EthFrame(<<a, b, c>>) }

InitTable ==
    /\ pc = "list"
    /\ ops \in UNION { [1..n -> TableRules] : n \in 0..MaxOps }
    /\ table = <<>>
    /\ tframe = EthFrame(<<>>)
    /\ tres = None
    /\ vals = Idle /\ made = Idle
    /\ op = Idle /\ frame = Idle /\ matched = Idle /\ out = Idle
    /\ stream = Idle /\ built = Idle

\* VlanTagOpTable(ops)
Build ==
    /\ pc = "list"
    /\ pc' = "built"
    /\ table' = NewVlanTagOpTable(ops)
    /\ UNCHANGED <<vals, made, op, frame, matched, out, ops, tframe, tres, stream, built>>

\* table.process_frame(f)
ProcessFrame ==
    /\ pc \in {"built", "processed"}
    /\ pc' = "processed"
    /\ \E f \in TableFrames :
          /\ tframe' = f
          /\ tres' = process_frame(table, f)
    /\ UNCHANGED <<vals, made, op, frame, matched, out, ops, table, stream, built>>

NextTable == Build \/ ProcessFrame

SpecTable == InitTable /\ [][NextTable]_vars

----------------------------------------------------------------------------
(* Claims on the table, under SpecTable                                    *)

\* the 8 filter fields of a rule, in the order the claim names them
C1_Filter(o) ==
    << o.f_out_prio, o.f_out_vid, o.f_out_tpid, o.f_in_prio, o.f_in_vid, o.f_in_tpid,
       o.f_ext_crit, o.f_eth_type >>

\* a is not after b in the lexicographic order of two 8-tuples
C1_LexLeq(a, b) ==
    a = b \/ \E k \in 1..NFilter : a[k] < b[k] /\ \A m \in 1..(k - 1) : a[m] = b[m]

\* the rules of a list that have the filter tuple ft, in the order of the list
C1_WithFilter(list, ft) ==
    LET Same(o) == C1_Filter(o) = ft
    IN  SelectSeq(list, Same)

\* C1: in the table built from a list of valid rules (a) no default rule is before a
\* non-default one, (b) the non-default rules ascend in the lexicographic order of
\* their 8 filter fields, (c) the rules of one filter tuple are those of the input,
\* in the order of the input.
C1_TableOrder ==
    pc # "list" =>
        /\ \A i, j \in 1..Len(table) :
              i < j => ~(is_default(table[i]) /\ ~is_default(table[j]))
        /\ \A i, j \in 1..Len(table) :
              (i < j /\ ~is_default(table[i]) /\ ~is_default(table[j])) =>
                  C1_LexLeq(C1_Filter(table[i]), C1_Filter(table[j]))
        /\ Len(table) = Len(ops)
        /\ \A r \in TableRules :
              C1_WithFilter(table, C1_Filter(r)) = C1_WithFilter(ops, C1_Filter(r))

\* A default rule given first is moved behind two rules of one filter tuple, which
\* keep their order although their treatments would sort the other way.
C1_Witness ==
    /\ pc = "built"
    /\ Len(ops) = 3
    /\ is_default(ops[1]) /\ is_untagged_filter(ops[1])
    /\ C1_Filter(ops[2]) = F_SingleVid10 /\ C1_Filter(ops[3]) = F_SingleVid10
    /\ ops[2].tag_rem = 3 /\ ops[3].tag_rem = 0
    /\ table = <<ops[2], ops[3], ops[1]>>

\* the places of the rules of the table that accept the frame
C2_Matching == {i \in 1..Len(table) : matches_filter(table[i], tframe, TPID_8100)}

\* C2: process_frame returns the transform of the first rule, in table order, that
\* accepts the frame, and None when no rule accepts it (so for every frame when the
\* table is empty).
C2_FirstMatchWins ==
    pc = "processed" =>
        /\ C2_Matching = {} => tres = None
        /\ \A i \in C2_Matching :
              (\A j \in C2_Matching : i <= j) => tres = transform(table[i], tframe, TPID_8100)

\* The first rule that accepts the frame drops it; a later one that accepts it as
\* well would have passed it on.
C2_Witness ==
    /\ pc = "processed"
    /\ Cardinality(C2_Matching) = 2
    /\ tres = None
    /\ \E j \in C2_Matching : transform(table[j], tframe, TPID_8100) # None

\* two rules agree on the six fields that matches_filter reads
C10_SameSix(a, b) ==
    /\ a.f_out_prio = b.f_out_prio /\ a.f_out_vid = b.f_out_vid /\ a.f_out_tpid = b.f_out_tpid
    /\ a.f_in_prio = b.f_in_prio /\ a.f_in_vid = b.f_in_vid /\ a.f_in_tpid = b.f_in_tpid

\* C10: matches_filter does not read f_ext_crit and f_eth_type: rules that agree on
\* the other six filter fields give the same answer on the frame, whatever the two
\* fields hold. So a non-default rule that differs from a default rule of the table
\* in these two fields alone accepts what the default accepts, stands before it, and
\* the default is never the rule process_frame applies: the rule applied is at or
\* before the non-default one.
C10_ExtCritEthTypeUnread ==
    pc = "processed" =>
        /\ \A i, j \in 1..Len(table) :
              C10_SameSix(table[i], table[j]) =>
                  (matches_filter(table[i], tframe, TPID_8100)
                      <=> matches_filter(table[j], tframe, TPID_8100))
        /\ \A i \in 1..Len(table) : \A e \in 0..2, t \in 0..5 :
              matches_filter([table[i] EXCEPT !.f_ext_crit = e, !.f_eth_type = t],
                             tframe, TPID_8100)
                  <=> matches_filter(table[i], tframe, TPID_8100)
        /\ \A n, d \in 1..Len(table) :
              (/\ ~is_default(table[n]) /\ is_default(table[d])
               /\ C10_SameSix(table[n], table[d])) =>
                  /\ n < d
                  /\ (d \in C2_Matching =>
                        /\ n \in C2_Matching
                        /\ \E i \in C2_Matching :
                              /\ i <= n
                              /\ \A j \in C2_Matching : i <= j
                              /\ tres = transform(table[i], tframe, TPID_8100))

\* The untagged default was given before the rule that differs from it in
\* f_ext_crit; an untagged frame gets the tag of the latter.
C10_Witness ==
    /\ pc = "processed"
    /\ Len(ops) = 2
    /\ C1_Filter(ops[1]) = F_UntaggedDefault /\ C1_Filter(ops[2]) = F_UntaggedExt
    /\ tframe = EthFrame(<<>>)
    /\ tres = transform(ops[2], tframe, TPID_8100)
    /\ tres # transform(ops[1], tframe, TPID_8100)

----------------------------------------------------------------------------
(* VlanTagOpTable.from_stream                                              *)

\* A line is the list of its tokens (line.split()), a token the list of its
\* characters, a character a string. "^2" stands for the character SUPERSCRIPT TWO
\* (U+00B2): str.isdigit() holds of it and int() refuses it.
DecimalDigits == {"0", "1", "2", "3", "4", "5", "6", "7", "8", "9"}
OtherDigits == {"^2"}

DigitValue ==
    [c \in DecimalDigits |->
        CASE c = "0" -> 0 [] c = "1" -> 1 [] c = "2" -> 2 [] c = "3" -> 3 [] c = "4" -> 4
          [] c = "5" -> 5 [] c = "6" -> 6 [] c = "7" -> 7 [] c = "8" -> 8 [] c = "9" -> 9]

\* str.isdigit(): at least one character, and every character a digit
isdigit(tok) ==
    /\ Len(tok) > 0
    /\ \A i \in 1..Len(tok) : tok[i] \in DecimalDigits \cup OtherDigits

\* int(tok) raises ValueError: a character is no decimal digit (of a token that
\* isdigit() accepted)
int_raises(tok) == \E i \in 1..Len(tok) : tok[i] \notin DecimalDigits

\* int(tok), where it does not raise
RECURSIVE int(_)
int(tok) ==
    IF tok = <<>> THEN 0
    ELSE 10 * int(SubSeq(tok, 1, Len(tok) - 1)) + DigitValue[tok[Len(tok)]]

\* tuple(vals[8:]) of a row that the OLT deleted
DeleteMarker == <<3, 15, 8191, 7, 15, 8191, 7>>

\* vals[6], vals[7] = vals[7], vals[6]
SwapExtEth(v) == [v EXCEPT ![7] = v[8], ![8] = v[7]]

\* What one pass of the loop does with a line.
LineSkip == [act |-> "skip", op |-> <<>>, field |-> "", val |-> 0]
LineAppend(o) == [act |-> "append", op |-> o, field |-> "", val |-> 0]
LineRaise(name, val) == [act |-> "raise", op |-> <<>>, field |-> name, val |-> val]

\* The body of the loop with the deletion check behind the construction.
read_line_late(line) ==
    IF Len(line) = NFields /\ \A i \in 1..Len(line) : isdigit(line[i])
    THEN IF \E i \in 1..Len(line) : int_raises(line[i])
         THEN LineRaise("", 0)
         ELSE LET v == [i \in 1..Len(line) |-> int(line[i])]
                  made_op == NewVlanTagOp(SwapExtEth(v))
              IN  IF ~made_op.ok THEN LineRaise(made_op.field, made_op.val)
                  ELSE IF SubSeq(v, NFilter + 1, NFields) = DeleteMarker THEN LineSkip
                  ELSE LineAppend(made_op.op)
    ELSE LineSkip

\* The body of the loop of from_stream. A ValueError of int() carries no field name.
read_line(line) ==
    IF Len(line) = NFields /\ \A i \in 1..Len(line) : isdigit(line[i])
    THEN IF \E i \in 1..Len(line) : int_raises(line[i])
         THEN LineRaise("", 0)
         ELSE LET v == [i \in 1..Len(line) |-> int(line[i])]
              IN  IF SubSeq(v, NFilter + 1, NFields) = DeleteMarker THEN LineSkip
                  ELSE LET made_op == NewVlanTagOp(SwapExtEth(v))
                       IN  IF made_op.ok THEN LineAppend(made_op.op)
                           ELSE LineRaise(made_op.field, made_op.val)
    ELSE LineSkip

\* The outcomes of from_stream: a table, or the ValueError that left it.
Table(t) == [ok |-> TRUE, table |-> t, exc |-> "", field |-> "", val |-> 0]
Failed(name, val) ==
    [ok |-> FALSE, table |-> <<>>, exc |-> "ValueError", field |-> name, val |-> val]

\* the loop from the i-th line on, acc being the list named ops
RECURSIVE read_from(_, _, _)
read_from(lines, i, acc) ==
    IF i > Len(lines) THEN Table(NewVlanTagOpTable(acc))
    ELSE LET r == read_line(lines[i])
         IN  CASE r.act = "raise" -> Failed(r.field, r.val)
               [] r.act = "append" -> read_from(lines, i + 1, Append(acc, r.op))
               [] OTHER -> read_from(lines, i + 1, acc)

from_stream(lines) == read_from(lines, 1, <<>>)

----------------------------------------------------------------------------
(* SpecStream: a table built from the lines of a stream                    *)

MaxLines == 2       \* the longest stream

DigitChar == <<"0", "1", "2", "3", "4", "5", "6", "7", "8", "9">>

\* the decimal numeral of n >= 0, as a token
RECURSIVE Numeral(_)
Numeral(n) ==
    IF n < 10 THEN <<DigitChar[n + 1]>>
    ELSE Numeral(n \div 10) \o <<DigitChar[(n % 10) + 1]>>

\* the line that holds the numerals of a row of integers
Row(v) == [i \in 1..Len(v) |-> Numeral(v[i])]

\* Filter halves of the rows: valid whichever of tokens 7 and 8 is f_ext_crit (the
\* untagged default, the all-zero filter, one with tokens 7 and 8 different); valid
\* only one way round (0 3, 3 0); invalid in every field it can be.
StreamFilters ==
    { F_UntaggedDefault,
      <<0, 0, 0, 0, 0, 0, 0, 0>>,
      <<15, 4096, 0, 8, 100, 0, 1, 2>>,
      <<15, 4096, 0, 8, 100, 0, 0, 3>>,
      <<15, 4096, 0, 8, 100, 0, 3, 0>>,
      <<99, 9999, 9, 99, 4096, 0, 9, 9>> }

\* Treatment halves: pass-through, single-tag transparent, the delete marker, and
\* the marker with its last value changed.
StreamTreats ==
    { <<0, 15, 0, 0, 15, 0, 0>>,
      <<0, 15, 4096, 0, 8, 4096, 0>>,
      DeleteMarker,
      <<3, 15, 8191, 7, 15, 8191, 6>> }

\* Lines that are no row of 15 numerals: empty, 14 and 16 tokens, a word, a signed
\* number and a superscript digit among 15 tokens.
NoiseLines ==
    LET good == Row(F_UntaggedDefault \o <<0, 15, 0, 0, 15, 0, 0>>)
    IN  { <<>>,
          SubSeq(good, 1, 14),
          good \o <<Numeral(0)>>,
          [good EXCEPT ![3] = <<"x">>],
          [good EXCEPT ![5] = <<"-", "1">>],
          [good EXCEPT ![8] = <<"^2">>] }

LineSet == { Row(f \o t) : f \in StreamFilters, t \in StreamTreats } \cup NoiseLines

InitStream ==
    /\ pc = "stream"
    /\ stream \in UNION { [1..n -> LineSet] : n \in 0..MaxLines }
    /\ built = Table(<<>>)
    /\ vals = Idle /\ made = Idle
    /\ op = Idle /\ frame = Idle /\ matched = Idle /\ out = Idle
    /\ ops = Idle /\ table = Idle /\ tframe = Idle /\ tres = Idle

\* VlanTagOpTable.from_stream(stream)
FromStream ==
    /\ pc = "stream"
    /\ pc' = "done"
    /\ built' = from_stream(stream)
    /\ UNCHANGED <<vals, made, op, frame, matched, out, ops, table, tframe, tres, stream>>

NextStream == FromStream

SpecStream == InitStream /\ [][NextStream]_vars

----------------------------------------------------------------------------
(* Claims on from_stream, under SpecStream                                 *)

\* a token is a decimal numeral
S_Numeral(tok) == Len(tok) > 0 /\ \A i \in 1..Len(tok) : tok[i] \in DecimalDigits

\* a line is a row of 15 non-negative integers
S_IntRow(line) == Len(line) = NFields /\ \A k \in 1..NFields : S_Numeral(line[k])

\* the integers of such a row, in token order
S_Ints(line) == [k \in 1..NFields |-> int(line[k])]

\* the 7 treatment values of such a row are the delete marker
S_Marked(line) ==
    <<int(line[9]), int(line[10]), int(line[11]), int(line[12]), int(line[13]),
      int(line[14]), int(line[15])>> = <<3, 15, 8191, 7, 15, 8191, 7>>

\* the stream without its i-th line
S_Without(lines, i) == SubSeq(lines, 1, i - 1) \o SubSeq(lines, i + 1, Len(lines))

\* C4 as stated: the k-th field of the rule made from an accepted row is its k-th
\* token (token 7 is f_ext_crit, token 8 is f_eth_type), and rows whose k-th token is
\* in the domain of the k-th field, for every k, never make the build fail.
C4_FieldOrderNoSwap ==
    pc = "done" =>
        /\ built.ok =>
              \A i \in 1..Len(stream) :
                  (S_IntRow(stream[i]) /\ ~S_Marked(stream[i])) =>
                      \E j \in 1..Len(built.table) :
                          astuple(built.table[j]) = S_Ints(stream[i])
        /\ (\A i \in 1..Len(stream) :
                (S_IntRow(stream[i]) /\ ~S_Marked(stream[i])) =>
                    \A k \in 1..NFields : S_Ints(stream[i])[k] \in C3_Domains[k])
              => built.ok

\* C5: no rule of the table built has the delete marker as its treatment half, and a
\* row of 15 integers with that treatment half, wherever it stands and whatever its
\* filter tokens are, leaves the outcome what it is without the row: it adds no rule
\* and raises nothing.
C5_DeleteMarkerDiscarded ==
    pc = "done" =>
        /\ \A j \in 1..Len(built.table) :
              SubSeq(astuple(built.table[j]), 9, 15) # <<3, 15, 8191, 7, 15, 8191, 7>>
        /\ \A i \in 1..Len(stream) :
              (S_IntRow(stream[i]) /\ S_Marked(stream[i])) =>
                  built = from_stream(S_Without(stream, i))

\* A marked row whose filter tokens are all outside their domains stands behind a
\* valid row: the table holds the one rule.
C5_Witness ==
    /\ pc = "done"
    /\ Len(stream) = 2
    /\ S_IntRow(stream[2]) /\ S_Marked(stream[2])
    /\ S_Ints(stream[2])[1] = 99 /\ S_Ints(stream[2])[2] = 9999
    /\ built.ok /\ Len(built.table) = 1

\* C6 as stated: a row with a token count other than 15 or with a non-numeric token
\* leaves the outcome what it is without the row; a row of 15 non-negative integers,
\* not the delete marker, with a field outside its domain makes the build fail with a
\* validation error, wherever it stands.
C6_ShapeSkippedDomainFatal ==
    pc = "done" =>
        /\ \A i \in 1..Len(stream) :
              ~S_IntRow(stream[i]) => built = from_stream(S_Without(stream, i))
        /\ \A i \in 1..Len(stream) :
              (/\ S_IntRow(stream[i]) /\ ~S_Marked(stream[i])
               /\ \E k \in 1..NFields : S_Ints(stream[i])[k] \notin C3_Domains[k]) =>
                  (~built.ok /\ built.exc = "ValueError" /\ built.field # "")

====
